---- MODULE Spec2Model ----
(***************************************************************************)
(* Model of src/errors.rs of dockworker: the ErrorKind taxonomy, the Error *)
(* wrapper around failure::Context<ErrorKind>, the From conversions and    *)
(* the accessors kind(), Display, cause() and backtrace().                 *)
(*                                                                         *)
(* One Error value is alive at a time (err).  A constructor makes it, an   *)
(* accessor reads it, and its owner drops it before the next failure.      *)
(* origin, built, last, first and prevConv are history variables: they     *)
(* record what the caller supplied and what the accessors returned, and no *)
(* operation of the program reads them.                                    *)
(***************************************************************************)
EXTENDS Integers, Sequences, FiniteSets, TLC

VARIABLES
    openssl,        \* cfg(feature = "openssl"): fixed at build time
    rustBacktrace,  \* process-wide backtrace capture setting
    err,            \* the live Error, or NoError before the first failure
    origin,         \* history: how err was constructed and from what
    built,          \* history: err as its constructor returned it
    last,           \* history: the latest accessor call and its result
    first,          \* history: per accessor, the result of its first call
    prevConv        \* history: the conversion that made the Error dropped last

vars == <<openssl, rustBacktrace, err, origin, built, last, first, prevConv>>

----------------------------------------------------------------------------
(* Bounds *)

\* a caller-supplied String field is a concatenation of at most MaxParts tokens
MaxParts == 2
\* distinct values of each raw failure type
MaxRawValues == 2

Tokens == <<"abc123", "tcp://1.2.3.4:2376", "un", "known">>

RECURSIVE StringsOf(_)
StringsOf(n) ==
    IF n = 0 THEN {""}
    ELSE LET shorter == StringsOf(n - 1)
         IN  shorter \cup {s \o Tokens[i] : s \in shorter, i \in 1..Len(Tokens)}

\* the String values callers supply for id, host, wanted and message
Strings == StringsOf(MaxParts)

\* the raw daemon output kept in ParseError.input
Inputs == {"", "{\"Id\": unknown"}

----------------------------------------------------------------------------
(* ErrorKind *)

UnitTags ==
    {"Io", "Envvar", "Hyper", "Json", "Docker", "Base64", "Response", "Http",
     "HttpUriInvalidUri", "HttpUriInvalidUriParts", "HttpHeaderToStrError",
     "MimeFromStrErr", "HyperTlsError", "OpenSSL", "NoCertPath", "SslDisabled"}

\* The variants of the enum.  No variant carries a cfg attribute, so the set
\* is the same whatever the feature selection.
ErrorKind(feature) ==
         [tag : UnitTags]
    \cup [tag : {"ContainerInfo"}, id : Strings]
    \cup [tag : {"CouldNotConnect", "SslError", "UnsupportedScheme"}, host : Strings]
    \cup [tag : {"ParseError"}, wanted : Strings, input : Inputs]
    \cup [tag : {"Poison", "Unknown"}, message : Strings]

\* #[fail(display = ...)] of the variants with fields: the template with each
\* {} replaced by the field named after it
DisplayContainerInfo(k) ==
    "could not fetch information about container '" \o k.id \o "'"

DisplayCouldNotConnect(k) ==
    "could not connected to Docker at '" \o k.host \o "'"

\* a ParseError displaying its raw input instead of the schema name
DisplayParseError_Input(k) ==
    "could not parse JSON for " \o k.input \o " from Docker"

DisplayParseError(k) ==
    "could not parse JSON for " \o k.wanted \o " from Docker"

DisplaySslError(k) ==
    "could not connect to Docker at '" \o k.host \o "' using SSL"

DisplayUnsupportedScheme(k) ==
    "do not know how to connect to Docker at '" \o k.host \o "'"

\* a Poison variant carrying the template of the variant below it
DisplayPoison_UnknownTemplate(k) ==
    "unknown error: " \o k.message

DisplayPoison(k) ==
    "poison error: " \o k.message

DisplayUnknown(k) ==
    "unknown error: " \o k.message

\* #[derive(Fail)]: Display of an ErrorKind, by variant
DisplayKind(k) ==
    CASE k.tag = "Io" -> "io error"
      [] k.tag = "Envvar" -> "envvar error"
      [] k.tag = "Hyper" -> "hyper error"
      [] k.tag = "Json" -> "json error"
      [] k.tag = "Docker" -> "docker error"
      [] k.tag = "Base64" -> "base64 error"
      [] k.tag = "Response" -> "response error"
      [] k.tag = "Http" -> "http error"
      [] k.tag = "HttpUriInvalidUri" -> "http uri invalid error"
      [] k.tag = "HttpUriInvalidUriParts" -> "http uri invalid uri parts error"
      [] k.tag = "HttpHeaderToStrError" -> "http header to str error"
      [] k.tag = "MimeFromStrErr" -> "mime from str error"
      [] k.tag = "HyperTlsError" -> "hyper tls error"
      [] k.tag = "OpenSSL" -> "openssl error"
      [] k.tag = "ContainerInfo" -> DisplayContainerInfo(k)
      [] k.tag = "CouldNotConnect" -> DisplayCouldNotConnect(k)
      [] k.tag = "NoCertPath" -> "could not find DOCKER_CERT_PATH"
      [] k.tag = "ParseError" -> DisplayParseError(k)
      [] k.tag = "SslDisabled" -> "Docker SSL support was disabled at compile time"
      [] k.tag = "SslError" -> DisplaySslError(k)
      [] k.tag = "UnsupportedScheme" -> DisplayUnsupportedScheme(k)
      [] k.tag = "Poison" -> DisplayPoison(k)
      [] k.tag = "Unknown" -> DisplayUnknown(k)

----------------------------------------------------------------------------
(* Raw failures of the collaborators *)

RawTypes ==
    {"io::Error", "env::VarError", "hyper::Error", "serde_json::Error",
     "docker::DockerError", "base64::DecodeError", "response::Error",
     "http::Error", "http::uri::InvalidUri", "http::uri::InvalidUriParts",
     "http::header::ToStrError", "mime::FromStrError"}

TlsRawTypes == {"hyper_tls::Error", "openssl::error::ErrorStack"}

RawValues(type) == [type : {type}, value : 1..MaxRawValues]

RawFailures == UNION {RawValues(t) : t \in RawTypes \cup TlsRawTypes}

None == [type |-> "None"]

----------------------------------------------------------------------------
(* failure::Context as Error uses it *)

\* Backtrace::new(): captures when the process has backtraces enabled
Backtrace == IF rustBacktrace THEN "captured" ELSE "disabled"

\* Context::new(kind): a context without an underlying failure
ContextNew(kind) == [context |-> kind, failure |-> None, backtrace |-> Backtrace]

\* error.context(kind): a context that owns error as its underlying failure
ContextOf(error, kind) == [context |-> kind, failure |-> error, backtrace |-> Backtrace]

----------------------------------------------------------------------------
(* Error *)

NoKind == [tag |-> "NoKind"]

\* the value of err before any failure has occurred
NoError == [inner |-> [context |-> NoKind, failure |-> None, backtrace |-> "disabled"]]

\* Error::new
new(inner) == [inner |-> inner]

\* Error::kind: self.inner.get_context()
kind(e) == e.inner.context

\* an accessor that reports no cause whatever the context holds
cause_AlwaysNone(e) == None

\* Fail::cause for Error: self.inner.cause()
cause(e) == e.inner.failure

\* Fail::backtrace for Error: self.inner.backtrace()
backtrace(e) == e.inner.backtrace

\* a Display that also renders the underlying failure
fmt_WithCause(e) ==
    IF e.inner.failure = None THEN DisplayKind(e.inner.context)
    ELSE DisplayKind(e.inner.context) \o ": " \o e.inner.failure.type

\* Display for Error: Display of self.inner, which is Display of its context
fmt(e) == DisplayKind(e.inner.context)

\* From<ErrorKind>
From_ErrorKind(k) == [inner |-> ContextNew(k)]

\* From<Context<ErrorKind>>
From_Context(inner) == [inner |-> inner]

\* From<io::Error>
From_io_Error(error) == [inner |-> ContextOf(error, [tag |-> "Io"])]

\* From<env::VarError>
From_env_VarError(error) == [inner |-> ContextOf(error, [tag |-> "Envvar"])]

\* From<hyper::Error>
From_hyper_Error(error) == [inner |-> ContextOf(error, [tag |-> "Hyper"])]

\* a conversion that builds its context from the kind alone
From_serde_json_Error_NoCause(error) == [inner |-> ContextNew([tag |-> "Json"])]

\* From<serde_json::Error>
From_serde_json_Error(error) == [inner |-> ContextOf(error, [tag |-> "Json"])]

\* From<docker::DockerError>
From_docker_DockerError(error) == [inner |-> ContextOf(error, [tag |-> "Docker"])]

\* From<base64::DecodeError>
From_base64_DecodeError(error) == [inner |-> ContextOf(error, [tag |-> "Base64"])]

\* From<response::Error>
From_response_Error(error) == [inner |-> ContextOf(error, [tag |-> "Response"])]

\* From<http::Error>
From_http_Error(error) == [inner |-> ContextOf(error, [tag |-> "Http"])]

\* From<http::uri::InvalidUri>
From_http_uri_InvalidUri(error) ==
    [inner |-> ContextOf(error, [tag |-> "HttpUriInvalidUri"])]

\* an invalid-parts conversion tagged with the kind of the impl above it
From_http_uri_InvalidUriParts_AsInvalidUri(error) ==
    [inner |-> ContextOf(error, [tag |-> "HttpUriInvalidUri"])]

\* From<http::uri::InvalidUriParts>
From_http_uri_InvalidUriParts(error) ==
    [inner |-> ContextOf(error, [tag |-> "HttpUriInvalidUriParts"])]

\* From<http::header::ToStrError>
From_http_header_ToStrError(error) ==
    [inner |-> ContextOf(error, [tag |-> "HttpHeaderToStrError"])]

\* From<mime::FromStrError>
From_mime_FromStrError(error) ==
    [inner |-> ContextOf(error, [tag |-> "MimeFromStrErr"])]

\* a TLS-transport conversion tagged as a generic transport failure
From_hyper_tls_Error_AsHyper(error) ==
    [inner |-> ContextOf(error, [tag |-> "Hyper"])]

\* From<hyper_tls::Error>
From_hyper_tls_Error(error) ==
    [inner |-> ContextOf(error, [tag |-> "HyperTlsError"])]

\* From<openssl::error::ErrorStack>
From_openssl_ErrorStack(error) ==
    [inner |-> ContextOf(error, [tag |-> "OpenSSL"])]

----------------------------------------------------------------------------
(* State machine *)

NoCall == [op |-> "none"]

Accessors == {"kind", "display", "cause", "backtrace"}

NoCalls == [op \in Accessors |-> [called |-> FALSE]]

NoConv == [type |-> "None", kind |-> NoKind]

Alive == origin.via /= "none"

Init ==
    /\ openssl \in BOOLEAN
    /\ rustBacktrace \in BOOLEAN
    /\ err = NoError
    /\ origin = [via |-> "none", kind |-> NoKind, cause |-> None]
    /\ built = NoError
    /\ last = NoCall
    /\ first = NoCalls
    /\ prevConv = NoConv

\* A constructor returned e: it becomes the live Error.  via, k and c record
\* which constructor ran and the kind and cause the caller handed to it.
Construct(e, via, k, c) ==
    /\ err' = e
    /\ built' = e
    /\ origin' = [via |-> via, kind |-> k, cause |-> c]
    /\ last' = NoCall
    /\ first' = NoCalls
    /\ prevConv' = IF via = "convert" THEN prevConv ELSE NoConv
    /\ UNCHANGED <<openssl, rustBacktrace>>

\* An accessor returned result: the history records it.
Observe(op, result) ==
    /\ last' = [op |-> op, result |-> result]
    /\ first' = IF first[op].called THEN first
                ELSE [first EXCEPT ![op] = [called |-> TRUE, result |-> result]]
    /\ UNCHANGED <<openssl, rustBacktrace, origin, built, prevConv>>

\* a local failure with no underlying cause: ErrorKind::X.into()
Into_ErrorKind ==
    /\ ~Alive
    /\ \E k \in ErrorKind(openssl) :
           Construct(From_ErrorKind(k), "kind", k, None)

\* the context a caller builds from a cause and a kind, or from a kind alone
CallerContext(c, k) == IF c = None THEN ContextNew(k) ELSE ContextOf(c, k)

\* a caller wraps a failure itself: failure.context(kind).into()
Into_Context ==
    /\ ~Alive
    /\ \E k \in ErrorKind(openssl), c \in RawFailures \cup {None} :
           Construct(From_Context(CallerContext(c, k)), "context", k, c)

\* a caller wraps a failure itself: Error::new(failure.context(kind))
Call_new ==
    /\ ~Alive
    /\ \E k \in ErrorKind(openssl), c \in RawFailures \cup {None} :
           Construct(new(CallerContext(c, k)), "context", k, c)

\* a io::Error is converted at the point where it occurs
Into_io_Error ==
    /\ ~Alive
    /\ \E error \in RawValues("io::Error") :
           Construct(From_io_Error(error), "convert", NoKind, error)

\* a env::VarError is converted at the point where it occurs
Into_env_VarError ==
    /\ ~Alive
    /\ \E error \in RawValues("env::VarError") :
           Construct(From_env_VarError(error), "convert", NoKind, error)

\* a hyper::Error is converted at the point where it occurs
Into_hyper_Error ==
    /\ ~Alive
    /\ \E error \in RawValues("hyper::Error") :
           Construct(From_hyper_Error(error), "convert", NoKind, error)

\* a serde_json::Error is converted at the point where it occurs
Into_serde_json_Error ==
    /\ ~Alive
    /\ \E error \in RawValues("serde_json::Error") :
           Construct(From_serde_json_Error(error), "convert", NoKind, error)

\* a docker::DockerError is converted at the point where it occurs
Into_docker_DockerError ==
    /\ ~Alive
    /\ \E error \in RawValues("docker::DockerError") :
           Construct(From_docker_DockerError(error), "convert", NoKind, error)

\* a base64::DecodeError is converted at the point where it occurs
Into_base64_DecodeError ==
    /\ ~Alive
    /\ \E error \in RawValues("base64::DecodeError") :
           Construct(From_base64_DecodeError(error), "convert", NoKind, error)

\* a response::Error is converted at the point where it occurs
Into_response_Error ==
    /\ ~Alive
    /\ \E error \in RawValues("response::Error") :
           Construct(From_response_Error(error), "convert", NoKind, error)

\* a http::Error is converted at the point where it occurs
Into_http_Error ==
    /\ ~Alive
    /\ \E error \in RawValues("http::Error") :
           Construct(From_http_Error(error), "convert", NoKind, error)

\* a http::uri::InvalidUri is converted at the point where it occurs
Into_http_uri_InvalidUri ==
    /\ ~Alive
    /\ \E error \in RawValues("http::uri::InvalidUri") :
           Construct(From_http_uri_InvalidUri(error), "convert", NoKind, error)

\* a http::uri::InvalidUriParts is converted at the point where it occurs
Into_http_uri_InvalidUriParts ==
    /\ ~Alive
    /\ \E error \in RawValues("http::uri::InvalidUriParts") :
           Construct(From_http_uri_InvalidUriParts(error), "convert", NoKind, error)

\* a http::header::ToStrError is converted at the point where it occurs
Into_http_header_ToStrError ==
    /\ ~Alive
    /\ \E error \in RawValues("http::header::ToStrError") :
           Construct(From_http_header_ToStrError(error), "convert", NoKind, error)

\* a mime::FromStrError is converted at the point where it occurs
Into_mime_FromStrError ==
    /\ ~Alive
    /\ \E error \in RawValues("mime::FromStrError") :
           Construct(From_mime_FromStrError(error), "convert", NoKind, error)

\* a TLS-transport conversion compiled into every build
Into_hyper_tls_Error_Ungated ==
    /\ ~Alive
    /\ \E error \in RawValues("hyper_tls::Error") :
           Construct(From_hyper_tls_Error(error), "convert", NoKind, error)

\* #[cfg(feature = "openssl")]: the impl exists only in a TLS build
Into_hyper_tls_Error ==
    /\ openssl
    /\ ~Alive
    /\ \E error \in RawValues("hyper_tls::Error") :
           Construct(From_hyper_tls_Error(error), "convert", NoKind, error)

\* a cryptography conversion compiled into every build
Into_openssl_ErrorStack_Ungated ==
    /\ ~Alive
    /\ \E error \in RawValues("openssl::error::ErrorStack") :
           Construct(From_openssl_ErrorStack(error), "convert", NoKind, error)

\* #[cfg(feature = "openssl")]: the impl exists only in a TLS build
Into_openssl_ErrorStack ==
    /\ openssl
    /\ ~Alive
    /\ \E error \in RawValues("openssl::error::ErrorStack") :
           Construct(From_openssl_ErrorStack(error), "convert", NoKind, error)

\* error.kind(): takes &self
Call_kind ==
    /\ Alive
    /\ Observe("kind", kind(err))
    /\ err' = err

\* format!("{}", error): takes &self
Call_fmt ==
    /\ Alive
    /\ Observe("display", fmt(err))
    /\ err' = err

\* a cause accessor that moves the failure out of the context
Call_cause_Take ==
    /\ Alive
    /\ Observe("cause", cause(err))
    /\ err' = [err EXCEPT !.inner.failure = None]

\* error.cause(): takes &self
Call_cause ==
    /\ Alive
    /\ Observe("cause", cause(err))
    /\ err' = err

\* error.backtrace(): takes &self
Call_backtrace ==
    /\ Alive
    /\ Observe("backtrace", backtrace(err))
    /\ err' = err

\* The owner of the Error lets go of it: the value is moved into its last
\* use and is gone.  The history keeps which conversion made it, if one did.
Drop ==
    /\ Alive
    /\ err' = NoError
    /\ built' = NoError
    /\ origin' = [via |-> "none", kind |-> NoKind, cause |-> None]
    /\ last' = NoCall
    /\ first' = NoCalls
    /\ prevConv' = IF origin.via = "convert"
                   THEN [type |-> origin.cause.type, kind |-> kind(err)]
                   ELSE NoConv
    /\ UNCHANGED <<openssl, rustBacktrace>>

Next ==
    \/ Into_ErrorKind
    \/ Into_Context
    \/ Call_new
    \/ Into_io_Error
    \/ Into_env_VarError
    \/ Into_hyper_Error
    \/ Into_serde_json_Error
    \/ Into_docker_DockerError
    \/ Into_base64_DecodeError
    \/ Into_response_Error
    \/ Into_http_Error
    \/ Into_http_uri_InvalidUri
    \/ Into_http_uri_InvalidUriParts
    \/ Into_http_header_ToStrError
    \/ Into_mime_FromStrError
    \/ Into_hyper_tls_Error
    \/ Into_openssl_ErrorStack
    \/ Call_kind
    \/ Call_fmt
    \/ Call_cause
    \/ Call_backtrace
    \/ Drop

Spec == Init /\ [][Next]_vars

----------------------------------------------------------------------------
(* Properties *)

\* t occurs in s as a contiguous substring
Contains(s, t) ==
    \E i \in 1..(Len(s) - Len(t) + 1) : SubSeq(s, i, i + Len(t) - 1) = t

\* the mapping of section 4.3: raw failure type -> kind
DocumentedKind(type) ==
    CASE type = "io::Error" -> "Io"
      [] type = "env::VarError" -> "Envvar"
      [] type = "hyper::Error" -> "Hyper"
      [] type = "serde_json::Error" -> "Json"
      [] type = "docker::DockerError" -> "Docker"
      [] type = "base64::DecodeError" -> "Base64"
      [] type = "response::Error" -> "Response"
      [] type = "http::Error" -> "Http"
      [] type = "http::uri::InvalidUri" -> "HttpUriInvalidUri"
      [] type = "http::uri::InvalidUriParts" -> "HttpUriInvalidUriParts"
      [] type = "http::header::ToStrError" -> "HttpHeaderToStrError"
      [] type = "mime::FromStrError" -> "MimeFromStrErr"
      [] type = "hyper_tls::Error" -> "HyperTlsError"
      [] type = "openssl::error::ErrorStack" -> "OpenSSL"

TlsTags == {"HyperTlsError", "OpenSSL"}

StructuredTags ==
    {"ContainerInfo", "CouldNotConnect", "ParseError", "SslError",
     "UnsupportedScheme", "Poison", "Unknown"}

\* the field of a structured kind that its display template interpolates
InterpolatedField(k) ==
    CASE k.tag = "ContainerInfo" -> k.id
      [] k.tag \in {"CouldNotConnect", "SslError", "UnsupportedScheme"} -> k.host
      [] k.tag = "ParseError" -> k.wanted
      [] k.tag \in {"Poison", "Unknown"} -> k.message

Converted == Alive /\ origin.via = "convert"

Displayed == Alive /\ last.op = "display"

\* C1: an Error converted from a raw failure has the documented kind of the
\* failure's type, whatever the failure's value, and kind() returns it; the
\* kind is a unit kind, never a synthesized kind or Unknown.
C1_ConversionYieldsDocumentedKind ==
    Converted =>
        /\ kind(err) = [tag |-> DocumentedKind(origin.cause.type)]
        /\ last.op = "kind" =>
              last.result = [tag |-> DocumentedKind(origin.cause.type)]

C1_Witness ==
    /\ Converted
    /\ origin.cause = [type |-> "http::uri::InvalidUriParts", value |-> MaxRawValues]
    /\ last.op = "kind"
    /\ last.result.tag = "HttpUriInvalidUriParts"

\* C2: the cause accessor of an Error converted from the raw failure v
\* returns v itself, on the first call and on every later call.
C2_CauseRoundTrip ==
    Converted =>
        /\ cause(err) = origin.cause
        /\ last.op = "cause" => last.result = origin.cause
        /\ first["cause"].called => first["cause"].result = origin.cause

C2_Witness ==
    /\ Converted
    /\ origin.cause = [type |-> "serde_json::Error", value |-> MaxRawValues]
    /\ last.op = "cause"
    /\ last.result = [type |-> "serde_json::Error", value |-> MaxRawValues]

\* C3: two conversions of raw failures of different types yield different
\* kinds.
C3_DistinctTypesDistinctKinds ==
    (Converted /\ prevConv /= NoConv /\ prevConv.type /= origin.cause.type) =>
        prevConv.kind /= kind(err)

C3_Witness ==
    /\ Converted
    /\ prevConv.type = "http::uri::InvalidUri"
    /\ prevConv.kind.tag = "HttpUriInvalidUri"
    /\ origin.cause.type = "http::uri::InvalidUriParts"
    /\ kind(err).tag = "HttpUriInvalidUriParts"

\* C4: displaying an Error renders the display string of its kind and nothing
\* of its cause; an Error converted from a JSON failure displays "json error".
C4_DisplayIsKindDisplay ==
    Displayed =>
        /\ last.result = DisplayKind(kind(err))
        /\ origin.via \in {"kind", "context"} =>
              last.result = DisplayKind(origin.kind)
        /\ (Converted /\ origin.cause.type = "serde_json::Error") =>
              last.result = "json error"

C4_Witness ==
    /\ Displayed
    /\ Converted
    /\ origin.cause.type = "serde_json::Error"
    /\ last.result = "json error"

\* C5: an Error built from a bare kind has that kind and no cause; an Error
\* built from (cause, kind) has that cause; an Error reports a cause exactly
\* when it was constructed with one.
C5_CauseIffConstructedWithOne ==
    Alive =>
        /\ origin.via = "kind" => cause(err) = None /\ kind(err) = origin.kind
        /\ origin.via = "context" => cause(err) = origin.cause
        /\ (cause(err) /= None) <=> (origin.cause /= None)
        /\ last.op = "cause" => last.result = origin.cause

C5_Witness ==
    /\ Alive
    /\ origin.via = "kind"
    /\ origin.kind.tag = "NoCertPath"
    /\ last.op = "cause"
    /\ last.result = None

\* C6 as stated: the display of an Error whose kind is not Unknown never
\* contains "unknown", whatever the field values.
C6_NeverUnknown ==
    (Displayed /\ kind(err).tag /= "Unknown") => ~Contains(last.result, "unknown")

\* C6 amended: the display of an Error whose kind is not Unknown contains
\* "unknown" only if the kind is structured and the caller-supplied field its
\* template interpolates contains "unknown".
C6_UnknownOnlyFromField ==
    (Displayed /\ kind(err).tag /= "Unknown" /\ Contains(last.result, "unknown")) =>
        /\ kind(err).tag \in StructuredTags
        /\ Contains(InterpolatedField(kind(err)), "unknown")

C6_Witness ==
    /\ Displayed
    /\ kind(err) = [tag |-> "Poison", message |-> "known"]
    /\ ~Contains(last.result, "unknown")

\* C7: a structured kind handed to a constructor is read back from kind()
\* with the same fields, and the display contains the interpolated field.
C7_FieldsPreserved ==
    (Alive /\ origin.via \in {"kind", "context"}) =>
        /\ kind(err) = origin.kind
        /\ last.op = "kind" => last.result = origin.kind
        /\ (last.op = "display" /\ origin.kind.tag \in StructuredTags) =>
              Contains(last.result, InterpolatedField(origin.kind))

C7_Witness ==
    /\ Displayed
    /\ origin.kind = [tag |-> "ContainerInfo", id |-> "abc123"]
    /\ first["kind"].called
    /\ first["kind"].result.id = "abc123"
    /\ Contains(last.result, "abc123")

\* C8: in a build without TLS the SslDisabled kind can be constructed and no
\* Error comes out of the two TLS conversions; in a build with TLS both
\* conversions exist and yield HyperTlsError and OpenSSL.
C8_TlsConversionsGated ==
    /\ (Converted /\ origin.cause.type \in TlsRawTypes) =>
          /\ openssl
          /\ kind(err).tag = IF origin.cause.type = "hyper_tls::Error"
                             THEN "HyperTlsError" ELSE "OpenSSL"
    /\ ~Alive =>
          /\ (ENABLED Into_hyper_tls_Error) <=> openssl
          /\ (ENABLED Into_openssl_ErrorStack) <=> openssl

C8_Witness ==
    /\ ~openssl
    /\ Alive
    /\ origin.via = "kind"
    /\ kind(err) = [tag |-> "SslDisabled"]
    /\ prevConv = NoConv

\* C9 as stated: in a build without TLS no Error has the kind HyperTlsError
\* or OpenSSL.
C9_TlsKindsGated ==
    (Alive /\ ~openssl) => kind(err).tag \notin TlsTags

\* C9 amended: in a build without TLS no conversion of a raw failure yields
\* an Error of kind HyperTlsError or OpenSSL; the two kinds stay in the
\* enumeration and reach an Error only through a caller-supplied kind.
C9_TlsKindsOnlyFromCaller ==
    (Alive /\ ~openssl /\ kind(err).tag \in TlsTags) =>
        /\ origin.via \in {"kind", "context"}
        /\ origin.kind = kind(err)

C9_Witness ==
    /\ Alive
    /\ ~openssl
    /\ origin.via = "kind"
    /\ kind(err) = [tag |-> "OpenSSL"]
    /\ last.op = "kind"

\* C10: no accessor changes the Error: it stays as constructed, and every
\* accessor returns what its first call returned.
C10_Immutable ==
    Alive =>
        /\ err = built
        /\ last.op /= "none" =>
              /\ first[last.op].called
              /\ first[last.op].result = last.result
        /\ first["kind"].called => first["kind"].result = kind(err)
        /\ first["display"].called => first["display"].result = fmt(err)
        /\ first["cause"].called => first["cause"].result = cause(err)
        /\ first["backtrace"].called => first["backtrace"].result = backtrace(err)

C10_Witness ==
    /\ Converted
    /\ \A op \in Accessors : first[op].called
    /\ last.op = "cause"
    /\ last.result = origin.cause
    /\ err = built

====
